---- MODULE Spec2Model ----
(***************************************************************************)
(* Model of exp.py (sebtsh/fast-drbo): the experiment driver `main` of a   *)
(* distributionally robust Bayesian-optimisation run.                      *)
(*                                                                         *)
(* exp.py is the only source file present.  The statements of `main` are   *)
(* translated one action per statement group.  The collaborators it calls  *)
(* (core.optimization.bayes_opt_loop_dist_robust, core.utils.MMD,          *)
(* core.utils.get_discrete_normal_dist_1d, core.models.GPRModule,          *)
(* core.acquisitions, core.observers, core.objectives) are not present and *)
(* are modelled from their description in spec.md.                         *)
(*                                                                         *)
(* Numbers are integers: positions on [0, 1] are in hundredths, variances  *)
(* in thousandths, kernel values are scaled by 64, probability weights are *)
(* unnormalised integers (a distribution is weights / sum of weights).     *)
(*                                                                         *)
(* Two independent runs of `main` (Runs) are composed so that statements   *)
(* about run-to-run reproducibility can be checked.  Run 2 has the         *)
(* configuration of run 1 except, possibly, the configured `seed`.         *)
(***************************************************************************)
EXTENDS Integers, Sequences, FiniteSets, TLC

\* ------------------------------------------------------------------ bounds
\* largest num_bo_iters enumerated (gpucb: 100)
MaxIters == 2
\* largest num_init_points enumerated (gpucb: 3)
MaxInit == 2
\* grid_density_per_dim (gpucb: 20)
GridDensity == 2
\* largest unnormalised weight of a distribution given to MMD directly
MaxWeight == 2

\* --------------------------------------------- configuration (gpucb, exp.py)
\* lowers = [0] * dims, uppers = [1] * dims, in hundredths
Lower == 0
Upper == 100
\* ls = 0.1, in hundredths
Ls == 10
\* obs_variance = 0.001, in thousandths
ObsVariance == 1
OptMaxIter == 10
BetaConst == 2
\* ref_mean = 0.5, true_mean = 0.49 (hundredths); ref_var = 0.05, true_var = 0.06 (thousandths)
RefMean == 50
RefVar == 50
TrueMean == 49
TrueVar == 60
\* seed = 1
Seed == 1
IsStandardizingObj == FALSE

Runs == {1, 2}
\* an unset local is the empty tuple, a set one the tuple of its value
None == <<>>
Some(v) == <<v>>

\* ------------------------------------------------------------ arithmetic
Min(a, b) == IF a < b THEN a ELSE b

RECURSIVE SumSeq(_)
SumSeq(s) == IF s = <<>> THEN 0 ELSE s[1] + SumSeq(Tail(s))

RECURSIVE SqrtBetween(_, _, _)
\* the largest r in lo..hi with r * r <= n (lo * lo <= n assumed)
SqrtBetween(n, lo, hi) ==
    IF lo >= hi THEN lo
    ELSE LET mid == (lo + hi + 1) \div 2
         IN IF mid * mid <= n THEN SqrtBetween(n, mid, hi)
            ELSE SqrtBetween(n, lo, mid - 1)

\* floor of the square root; 46340 is the largest root of a 32-bit square
Sqrt(n) == SqrtBetween(n, 0, Min(n, 46340))

\* ------------------------------------------------------ the random source
\* numpy's global generator, as a linear congruential generator of period 8.
RngNext(s) == (5 * s + 3) % 8

\* np.random.seed(v): the state a seed value puts the generator in
SeedState(v) == v % 8

\* the states the generator may be in before it is seeded (OS entropy)
Unseeded == 0..7

RECURSIVE RngAt(_, _)
\* the generator's state after j draws from state s
RngAt(s, j) == IF j = 0 THEN s ELSE RngAt(RngNext(s), j - 1)

\* the value one draw from state s yields
RngOut(s) == s \div 2

\* np.random.randint(0, n, size): size indices in [0, n), drawn one after another
RandInt(s, n, size) == [j \in 1..size |-> RngOut(RngAt(s, j - 1)) % n]

\* ------------------------------------------------------------------ grids
\* construct_grid_1d(lower, upper, density): density evenly spaced points
construct_grid_1d(lower, upper, density) ==
    [j \in 1..density |-> lower + ((upper - lower) * (j - 1)) \div (density - 1)]

\* cross_product(A, B): all pairs, A varying slower than B
cross_product(A, B) ==
    [k \in 1..(Len(A) * Len(B)) |->
        <<A[((k - 1) \div Len(B)) + 1], B[((k - 1) % Len(B)) + 1]>>]

action_points == construct_grid_1d(Lower, Upper, GridDensity)
context_points == construct_grid_1d(Lower, Upper, GridDensity)
search_points == cross_product(action_points, context_points)

Range(s) == {s[j] : j \in 1..Len(s)}

\* ---------------------------------------------------------------- kernels
KernAsymmetric(x, y, ls) ==
    IF x <= y THEN (64 * 2 * ls * ls) \div (2 * ls * ls + (x - y) * (x - y)) ELSE 0

\* gpf.kernels.SquaredExponential(lengthscales=[ls]): a symmetric stationary
\* kernel decreasing in |x - y|, scaled by 64
Kern(x, y, ls) == (64 * 2 * ls * ls) \div (2 * ls * ls + (x - y) * (x - y))

\* f_kernel on the joint action x context space: the product over dimensions
FKern(a, b, ls) == (Kern(a[1], b[1], ls) * Kern(a[2], b[2], ls)) \div 64

\* ---------------------------------------------------------- distributions
\* get_discrete_normal_dist_1d(points, mean, var): bell-shaped weights over
\* the points, centred at mean, widening with var
get_discrete_normal_dist_1d(points, mean, var) ==
    [j \in 1..Len(points) |->
        (40 * 20 * var) \div (20 * var + (points[j] - mean) * (points[j] - mean))]

\* sum over x, y of u(x) v(y) k(x, y)
KernForm(u, v, pts, ls) ==
    SumSeq([k \in 1..(Len(pts) * Len(pts)) |->
        LET i == ((k - 1) \div Len(pts)) + 1
            j == ((k - 1) % Len(pts)) + 1
        IN u[i] * v[j] * Kern(pts[i], pts[j], ls)])

\* MMD(p, q, kernel, support): sqrt(pKp + qKq - 2 pKq) of the normalised
\* weights, a negative residue clamped to 0.  With sp, sq the sums of the
\* weights the result is in units of 1 / (8 * sp * sq).
MMD(p, q, ls, pts) ==
    LET sp == SumSeq(p)
        sq == SumSeq(q)
        u == [j \in 1..Len(pts) |-> sq * p[j]]
        v == [j \in 1..Len(pts) |-> sp * q[j]]
        sqd == KernForm(u, u, pts, ls) + KernForm(v, v, pts, ls)
                 - 2 * KernForm(u, v, pts, ls)
    IN Sqrt(IF sqd < 0 THEN 0 ELSE sqd)

\* ref_dist_func = lambda x: get_discrete_normal_dist_1d(context_points, ref_mean, ref_var)
ref_dist_func(x) == get_discrete_normal_dist_1d(context_points, RefMean, RefVar)
\* true_dist_func = lambda x: get_discrete_normal_dist_1d(context_points, true_mean, true_var)
true_dist_func(x) == get_discrete_normal_dist_1d(context_points, TrueMean, TrueVar)

\* -------------------------------------------------------------- objective
\* get_obj_func(obj_func_name, lowers, uppers, f_kernel, rand_func_num_points, seed)
\* (and standardize_objective): a function of the point fixed by the seed
ObjValue(o, pt) ==
    LET raw == ((o.seed * 37 + pt[1] * 3 + pt[2] * 7) \div 10) % 11
    IN IF o.std THEN raw - 5 ELSE raw

\* mk_noisy_observer(obj_func, obs_variance) applied to points: the objective
\* plus one noise draw per point from the shared random source
Observer(o, pts, s) ==
    [query_points |-> pts,
     observations |-> [j \in 1..Len(pts) |->
         ObjValue(o, pts[j]) + (RngOut(RngAt(s, j - 1)) % 3) - 1]]

EmptyDataset == [query_points |-> <<>>, observations |-> <<>>]

\* Dataset + Dataset
Concat(d, e) ==
    [query_points |-> d.query_points \o e.query_points,
     observations |-> d.observations \o e.observations]

\* -------------------------------------------------------------- surrogate
SumK(m, pt) ==
    SumSeq([j \in 1..Len(m.data.query_points) |->
        FKern(pt, m.data.query_points[j], m.ls)])

\* posterior mean at pt given the fitted data (prior mean 0)
PostMean(m, pt) ==
    SumSeq([j \in 1..Len(m.data.query_points) |->
        FKern(pt, m.data.query_points[j], m.ls) * m.data.observations[j]])
      \div (m.noise + SumK(m, pt))

\* posterior variance at pt: shrinks with the fitted data near pt, never negative
PostVar(m, pt) == (64 * m.noise) \div (m.noise + SumK(m, pt))

RECURSIVE OptimizeLs(_, _, _)
\* at most `steps` steps of the lengthscale towards the likelihood's optimum
OptimizeLs(ls, target, steps) ==
    IF steps = 0 \/ ls = target THEN ls
    ELSE OptimizeLs(IF ls < target THEN ls + 1 ELSE ls - 1, target, steps - 1)

\* ------------------------------------------------------------ acquisition
\* acquisition value of one point: posterior mean + beta * exploration bonus
UCB(m, pt, beta) == PostMean(m, pt) + beta * PostVar(m, pt)

MaxOf(S) == CHOOSE x \in S : \A y \in S : y <= x
MinOf(S) == CHOOSE x \in S : \A y \in S : x <= y

\* score(action, ...): reference-weighted value of the action over the
\* contexts, lowered by the margin times the spread of the value
Score(m, a, ref, mrg, beta) ==
    LET vals == [j \in 1..Len(context_points) |-> UCB(m, <<a, context_points[j]>>, beta)]
    IN SumSeq([j \in 1..Len(context_points) |-> ref[j] * vals[j]])
         - mrg * (MaxOf(Range(vals)) - MinOf(Range(vals)))

\* select_next_action: argmax over the action grid, first index on ties
SelectNextAction(m, ref, mrg, beta) ==
    LET sc == [j \in 1..Len(action_points) |-> Score(m, action_points[j], ref, mrg, beta)]
        best == MinOf({j \in 1..Len(action_points) :
                          \A k \in 1..Len(action_points) : sc[k] <= sc[j]})
    IN action_points[best]

\* the context the chosen action is queried at: the first context of largest
\* reference weight
QueryContext(ref) ==
    context_points[MinOf({j \in 1..Len(ref) : \A k \in 1..Len(ref) : ref[k] <= ref[j]})]

\* beta = lambda x: beta_const
beta(x) == BetaConst

\* ------------------------------------------------------------------ state
VARIABLES
    cfg,          \* per run: the configuration main is called with
    pc,           \* per run: the statement of main (or of the loop) to execute next
    rng,          \* per run: the states numpy's global random generator may be in
    seedCalls,    \* per run: how many times the generator has been seeded
    draws,        \* per run: how many values have been drawn from the generator
    obj,          \* per run: obj_func
    init_dataset, \* per run: init_dataset of main
    model,        \* per run: the GPRModule (its fitted data and hyperparameters)
    margin,       \* per run: margin of main, captured by margin_func
    mmdCalls,     \* per run: how many times MMD has been evaluated
    dataset,      \* per run: dataset of the loop
    iter,         \* per run: the loop index
    action,       \* per run: the action chosen in the current iteration
    new_data,     \* per run: the observation of the current iteration
    result,       \* per run: (final_dataset, model_params) as returned by the loop
    mp, mq,       \* the two distributions given to MMD
    mout          \* the values MMD returned for them

runVars == <<cfg, pc, rng, seedCalls, draws, obj, init_dataset, model, margin,
             mmdCalls, dataset, iter, action, new_data, result>>
mmdVars == <<mp, mq, mout>>
vars == <<runVars, mmdVars>>

\* the numerical failures a run may meet: none, in MMD, or in scoring or
\* refitting at iteration `at`
Faults(n) ==
    {[step |-> "none", at |-> 0], [step |-> "mmd", at |-> 0]}
      \cup {[step |-> s, at |-> k] : s \in {"score", "refit"}, k \in 0..(n - 1)}

Configs ==
    {[num_bo_iters |-> n, num_init_points |-> m, seed |-> Seed,
      is_optimizing_gp |-> o, fault |-> f] :
        n \in 0..MaxIters, m \in 1..MaxInit, o \in BOOLEAN, f \in Faults(MaxIters)}

InitRun(c) ==
    /\ cfg = c
    /\ pc = [r \in Runs |-> "seed"]
    /\ rng = [r \in Runs |-> Unseeded]
    /\ seedCalls = [r \in Runs |-> 0]
    /\ draws = [r \in Runs |-> 0]
    /\ obj = [r \in Runs |-> None]
    /\ init_dataset = [r \in Runs |-> EmptyDataset]
    /\ model = [r \in Runs |-> None]
    /\ margin = [r \in Runs |-> None]
    /\ mmdCalls = [r \in Runs |-> 0]
    /\ dataset = [r \in Runs |-> EmptyDataset]
    /\ iter = [r \in Runs |-> 0]
    /\ action = [r \in Runs |-> None]
    /\ new_data = [r \in Runs |-> EmptyDataset]
    /\ result = [r \in Runs |-> None]

Init ==
    /\ \E c \in Configs : \E s \in {Seed, Seed + 1} :
          /\ c.fault.at < c.num_bo_iters \/ c.fault.step \in {"none", "mmd"}
          /\ InitRun([r \in Runs |-> IF r = 1 THEN c ELSE [c EXCEPT !.seed = s]])
    /\ mp = ref_dist_func(0)
    /\ mq = true_dist_func(0)
    /\ mout = None

\* ------------------------------------------------------------- main, by statement
\* the statement a numerical failure is due at, if the run meets one
FaultDue(r) ==
    LET f == cfg[r].fault
    IN CASE f.step = "mmd" -> pc[r] = "margin"
         [] f.step = "score" -> pc[r] = "acquire" /\ iter[r] = f.at
         [] f.step = "refit" -> pc[r] = "refit" /\ iter[r] = f.at
         [] OTHER -> FALSE

SeededStateSkipped(c) == Unseeded
SeededStateFromConfig(c) == {SeedState(c.seed)}

\* np.random.seed(0): the seed is the literal 0, whatever the configuration
SeededState(c) == {SeedState(0)}

\* exp.py:47
NpRandomSeed(r) ==
    /\ pc[r] = "seed"
    /\ rng' = [rng EXCEPT ![r] = SeededState(cfg[r])]
    /\ seedCalls' = [seedCalls EXCEPT ![r] = @ + 1]
    /\ pc' = [pc EXCEPT ![r] = "objective"]
    /\ UNCHANGED <<cfg, draws, obj, init_dataset, model, margin, mmdCalls,
                   dataset, iter, action, new_data, result, mmdVars>>

\* exp.py:49-55: the kernels and the objective function
GetObjective(r) ==
    /\ pc[r] = "objective"
    /\ obj' = [obj EXCEPT ![r] = Some([seed |-> cfg[r].seed, std |-> IsStandardizingObj])]
    /\ pc' = [pc EXCEPT ![r] = "grid"]
    /\ UNCHANGED <<cfg, rng, seedCalls, draws, init_dataset, model, margin, mmdCalls,
                   dataset, iter, action, new_data, result, mmdVars>>

\* exp.py:57-61: action_points, context_points, search_points (fixed by the configuration)
BuildSearchSpace(r) ==
    /\ pc[r] = "grid"
    /\ pc' = [pc EXCEPT ![r] = "init"]
    /\ UNCHANGED <<cfg, rng, seedCalls, draws, obj, init_dataset, model, margin, mmdCalls,
                   dataset, iter, action, new_data, result, mmdVars>>

\* the size argument of np.random.randint at exp.py:64
NumInitDraws(c) == c.num_init_points

\* exp.py:63-64: init_dataset = observer(search_points[randint(0, len(search_points), num_init_points)])
InitDataset(r) ==
    /\ pc[r] = "init"
    /\ \E s \in rng[r] :
          LET k == NumInitDraws(cfg[r])
              idx == RandInt(s, Len(search_points), k)
              pts == [j \in 1..k |-> search_points[idx[j] + 1]]
          IN /\ init_dataset' = [init_dataset EXCEPT ![r] = Observer(obj[r][1], pts, RngAt(s, k))]
             /\ rng' = [rng EXCEPT ![r] = {RngAt(s, 2 * k)}]
             /\ draws' = [draws EXCEPT ![r] = @ + 2 * k]
    /\ pc' = [pc EXCEPT ![r] = "model"]
    /\ UNCHANGED <<cfg, seedCalls, obj, model, margin, mmdCalls,
                   dataset, iter, action, new_data, result, mmdVars>>

GPRModuleWithoutData(ds) ==
    [data |-> EmptyDataset, ls |-> Ls, noise |-> ObsVariance, opt_max_iter |-> OptMaxIter]

\* GPRModule(dims, kernel=f_kernel, noise_variance=obs_variance, dataset=init_dataset, opt_max_iter)
GPRModule(ds) ==
    [data |-> ds, ls |-> Ls, noise |-> ObsVariance, opt_max_iter |-> OptMaxIter]

\* exp.py:66-71
ConstructModel(r) ==
    /\ pc[r] = "model"
    /\ model' = [model EXCEPT ![r] = Some(GPRModule(init_dataset[r]))]
    /\ pc' = [pc EXCEPT ![r] = "margin"]
    /\ UNCHANGED <<cfg, rng, seedCalls, draws, obj, init_dataset, margin, mmdCalls,
                   dataset, iter, action, new_data, result, mmdVars>>

\* exp.py:73-82: the acquisition, the distribution functions,
\* margin = MMD(ref_dist_func(0), true_dist_func(0), mmd_kernel, context_points)
ComputeMargin(r) ==
    /\ pc[r] = "margin"
    /\ ~FaultDue(r)
    /\ margin' = [margin EXCEPT ![r] =
                     Some(MMD(ref_dist_func(0), true_dist_func(0), Ls, context_points))]
    /\ mmdCalls' = [mmdCalls EXCEPT ![r] = @ + 1]
    /\ pc' = [pc EXCEPT ![r] = "call_loop"]
    /\ UNCHANGED <<cfg, rng, seedCalls, draws, obj, init_dataset, model,
                   dataset, iter, action, new_data, result, mmdVars>>

MarginFuncDrifting(r, x) == margin[r][1] + x

\* margin_func = lambda x: margin
margin_func(r, x) == margin[r][1]

NumItersOffByOne(c) == c.num_bo_iters + 1
NumItersEarlyStop(c) == IF c.num_bo_iters > 1 THEN 1 ELSE c.num_bo_iters

\* num_iters=num_bo_iters at exp.py:91
NumIters(c) == c.num_bo_iters

\* the loop's test: another iteration, or return
LoopHead(r, i) == IF i < NumIters(cfg[r]) THEN "acquire" ELSE "return"

\* exp.py:85-95: the call of bayes_opt_loop_dist_robust with init_dataset=init_dataset
CallLoop(r) ==
    /\ pc[r] = "call_loop"
    /\ dataset' = [dataset EXCEPT ![r] = init_dataset[r]]
    /\ iter' = [iter EXCEPT ![r] = 0]
    /\ pc' = [pc EXCEPT ![r] = LoopHead(r, 0)]
    /\ UNCHANGED <<cfg, rng, seedCalls, draws, obj, init_dataset, model, margin, mmdCalls,
                   action, new_data, result, mmdVars>>

\* ------------------------------------- bayes_opt_loop_dist_robust, by step
AcquireOptimizing(r) ==
    /\ pc[r] = "acquire"
    /\ ~FaultDue(r)
    /\ action' = [action EXCEPT ![r] =
                     Some(SelectNextAction(model[r][1], ref_dist_func(iter[r]),
                                           margin_func(r, iter[r]), beta(iter[r])))]
    /\ model' = [model EXCEPT ![r] = Some([model[r][1] EXCEPT !.ls = @ + 1])]
    /\ pc' = [pc EXCEPT ![r] = "observe"]
    /\ UNCHANGED <<cfg, rng, seedCalls, draws, obj, init_dataset, margin, mmdCalls,
                   dataset, iter, new_data, result, mmdVars>>

\* steps 1-2: reference_dist_func(i), margin_func(i), then the acquisition's choice
Acquire(r) ==
    /\ pc[r] = "acquire"
    /\ ~FaultDue(r)
    /\ action' = [action EXCEPT ![r] =
                     Some(SelectNextAction(model[r][1], ref_dist_func(iter[r]),
                                           margin_func(r, iter[r]), beta(iter[r])))]
    /\ pc' = [pc EXCEPT ![r] = "observe"]
    /\ UNCHANGED <<cfg, rng, seedCalls, draws, obj, init_dataset, model, margin, mmdCalls,
                   dataset, iter, new_data, result, mmdVars>>

\* steps 3-4: the query point, and the observer's noisy value at it
Observe(r) ==
    /\ pc[r] = "observe"
    /\ \E s \in rng[r] :
          /\ new_data' = [new_data EXCEPT ![r] =
                Observer(obj[r][1],
                         <<<<action[r][1], QueryContext(ref_dist_func(iter[r]))>>>>, s)]
          /\ rng' = [rng EXCEPT ![r] = {RngAt(s, 1)}]
    /\ draws' = [draws EXCEPT ![r] = @ + 1]
    /\ pc' = [pc EXCEPT ![r] = "append"]
    /\ UNCHANGED <<cfg, seedCalls, obj, init_dataset, model, margin, mmdCalls,
                   dataset, iter, action, result, mmdVars>>

AppendOverwritingLast(d, e) ==
    IF d.query_points = <<>> THEN e
    ELSE [query_points |-> SubSeq(d.query_points, 1, Len(d.query_points) - 1) \o e.query_points,
          observations |-> SubSeq(d.observations, 1, Len(d.observations) - 1) \o e.observations]

\* dataset = dataset + new_data
AppendData(d, e) == Concat(d, e)

\* step 5
AppendStep(r) ==
    /\ pc[r] = "append"
    /\ dataset' = [dataset EXCEPT ![r] = AppendData(dataset[r], new_data[r])]
    /\ pc' = [pc EXCEPT ![r] = "refit"]
    /\ UNCHANGED <<cfg, rng, seedCalls, draws, obj, init_dataset, model, margin, mmdCalls,
                   iter, action, new_data, result, mmdVars>>

\* refit(dataset, optimize_hyperparameters): the fitted state is replaced by
\* one conditioned on the dataset; the lengthscale is re-optimised on demand
RefitModel(m, ds, optimize) ==
    [m EXCEPT !.data = ds,
              !.ls = IF optimize
                     THEN OptimizeLs(m.ls, Ls + 2 * (Len(ds.query_points) % 3), m.opt_max_iter)
                     ELSE m.ls]

\* step 6, and the end of the iteration
Refit(r) ==
    /\ pc[r] = "refit"
    /\ ~FaultDue(r)
    /\ model' = [model EXCEPT ![r] =
                    Some(RefitModel(model[r][1], dataset[r], cfg[r].is_optimizing_gp))]
    /\ iter' = [iter EXCEPT ![r] = @ + 1]
    /\ pc' = [pc EXCEPT ![r] = LoopHead(r, iter[r] + 1)]
    /\ UNCHANGED <<cfg, rng, seedCalls, draws, obj, init_dataset, margin, mmdCalls,
                   dataset, action, new_data, result, mmdVars>>

\* the loop returns; final_dataset, model_params = ... (exp.py:85) and the print (exp.py:96)
Return(r) ==
    /\ pc[r] = "return"
    /\ result' = [result EXCEPT ![r] =
                     Some([dataset |-> dataset[r],
                           params |-> [ls |-> model[r][1].ls, noise |-> model[r][1].noise]])]
    /\ pc' = [pc EXCEPT ![r] = "plot"]
    /\ UNCHANGED <<cfg, rng, seedCalls, draws, obj, init_dataset, model, margin, mmdCalls,
                   dataset, iter, action, new_data, mmdVars>>

\* exp.py:97-114: the plots read final_dataset, obj_func and the grids
Plot(r) ==
    /\ pc[r] = "plot"
    /\ pc' = [pc EXCEPT ![r] = "done"]
    /\ UNCHANGED <<cfg, rng, seedCalls, draws, obj, init_dataset, model, margin, mmdCalls,
                   dataset, iter, action, new_data, result, mmdVars>>

OnFailureReturnPartial(p) == "return"

\* main has no handler around exp.py:80-95: an exception raised at statement p
\* leaves main, and nothing after the statement runs
OnFailure(p) == "aborted"

\* a numerical failure (NumericalInstabilityError) raised by the statement due
Fail(r) ==
    /\ FaultDue(r)
    /\ pc' = [pc EXCEPT ![r] = OnFailure(pc[r])]
    /\ UNCHANGED <<cfg, rng, seedCalls, draws, obj, init_dataset, model, margin, mmdCalls,
                   dataset, iter, action, new_data, result, mmdVars>>

Step(r) ==
    \/ NpRandomSeed(r)
    \/ GetObjective(r)
    \/ BuildSearchSpace(r)
    \/ InitDataset(r)
    \/ ConstructModel(r)
    \/ ComputeMargin(r)
    \/ CallLoop(r)
    \/ Acquire(r)
    \/ Observe(r)
    \/ AppendStep(r)
    \/ Refit(r)
    \/ Return(r)
    \/ Plot(r)
    \/ Fail(r)

Next == \E r \in Runs : Step(r)

Spec == Init /\ [][Next]_vars

PcValues ==
    {"seed", "objective", "grid", "init", "model", "margin", "call_loop",
     "acquire", "observe", "append", "refit", "return", "plot", "done", "aborted"}

\* run r executes its next statement.  This is Step(r) seen through pc: every
\* Step(r) changes pc[r] and nothing else does, and a statement of main never
\* blocks, so Step(r) is enabled exactly when pc[r] is neither "done" nor
\* "aborted" (each pc value is the guard of one statement's action, Fail
\* taking its place when a failure is due).
Advance(r) ==
    /\ pc[r] \notin {"done", "aborted"}
    /\ \E v \in PcValues \ {pc[r]} : pc' = [pc EXCEPT ![r] = v]

\* main is one synchronous thread of a process: a run that has a next
\* statement executes it
FairSpec == Spec /\ \A r \in Runs : WF_pc(Advance(r))

\* ---------------------------------------------------- MMD as a pure function
\* the distributions over the context grid, as unnormalised weights
WeightVectors ==
    {w \in [1..GridDensity -> 0..MaxWeight] : SumSeq(w) > 0}

InitMMD ==
    /\ InitRun([r \in Runs |-> CHOOSE c \in Configs :
                   c.num_bo_iters = 0 /\ c.num_init_points = 1
                     /\ ~c.is_optimizing_gp /\ c.fault.step = "none"])
    /\ mp \in WeightVectors \cup {ref_dist_func(0), true_dist_func(0)}
    /\ mq \in WeightVectors \cup {ref_dist_func(0), true_dist_func(0)}
    /\ mout = None

\* MMD both ways round, and of a distribution with itself
EvalMMD ==
    /\ mout = None
    /\ mout' = Some([pq |-> MMD(mp, mq, Ls, context_points),
                     qp |-> MMD(mq, mp, Ls, context_points),
                     pp |-> MMD(mp, mp, Ls, context_points)])
    /\ UNCHANGED <<mp, mq, runVars>>

NextMMD == EvalMMD

SpecMMD == InitMMD /\ [][NextMMD]_vars

\* ================================================================ properties
LoopPcs == {"acquire", "observe", "append", "refit"}
\* the statements of main before the margin is computed
BeforeMargin == {"seed", "objective", "grid", "init", "model", "margin"}
\* the statements of main up to and including the initial sampling
BeforeModel == {"seed", "objective", "grid", "init"}
Size(d) == Len(d.query_points)
IsPrefix(a, b) == Len(a) <= Len(b) /\ SubSeq(b, 1, Len(a)) = a
Compatible(a, b) == \A j \in 1..Min(Len(a), Len(b)) : a[j] = b[j]
ParamsOf(m) == [ls |-> m.ls, noise |-> m.noise]

\* C1: started from an initial dataset of m points with num_iters = n, the
\* dataset holds m + k points after k completed iterations (0 <= k <= n), one
\* more between the append and the end of the iteration, and the returned
\* final dataset holds m + n points.
C1_DatasetGrowth ==
    \A r \in Runs :
        LET m == Size(init_dataset[r])
            n == cfg[r].num_bo_iters
        IN /\ pc[r] \in {"acquire", "observe", "append", "return"}
                => iter[r] <= n /\ Size(dataset[r]) = m + iter[r]
           /\ pc[r] = "refit" => iter[r] < n /\ Size(dataset[r]) = m + iter[r] + 1
           /\ result[r] # None => Size(result[r][1].dataset) = m + n

C1_Witness ==
    \E r \in Runs :
        /\ result[r] # None
        /\ cfg[r].num_bo_iters = MaxIters
        /\ Size(init_dataset[r]) = MaxInit
        /\ Size(result[r][1].dataset) = MaxInit + MaxIters

\* C2: the margin MMD(reference, true) is computed exactly once, before the
\* loop is entered; it is non-negative; and from then on margin_func(i) is that
\* value for every iteration index i of the run.
C2_MarginOnce ==
    \A r \in Runs :
        /\ mmdCalls[r] <= 1
        /\ pc[r] \in BeforeMargin => mmdCalls[r] = 0 /\ margin[r] = None
        /\ pc[r] \in LoopPcs \cup {"call_loop", "return", "plot", "done"} =>
              /\ mmdCalls[r] = 1
              /\ margin[r] # None
              /\ margin[r][1] >= 0
              /\ \A i \in 0..(cfg[r].num_bo_iters - 1) :
                    margin_func(r, i) =
                        MMD(ref_dist_func(i), true_dist_func(i), Ls, context_points)

C2_Witness ==
    \E r \in Runs :
        /\ pc[r] = "done"
        /\ iter[r] = MaxIters
        /\ mmdCalls[r] = 1
        /\ margin[r][1] > 0

\* C3: two runs of main with the same configuration query the same points in
\* the same order (initial points and every iteration's choice), and hold the
\* same data whenever they are at the same statement of the same iteration; the
\* random source of a run is seeded once, by the first statement, and no value
\* is drawn from it unseeded.
C3_Reproducible ==
    /\ cfg[1] = cfg[2] =>
          /\ Compatible(init_dataset[1].query_points, init_dataset[2].query_points)
          /\ Compatible(dataset[1].query_points, dataset[2].query_points)
          /\ pc[1] = pc[2] /\ iter[1] = iter[2] =>
                /\ init_dataset[1] = init_dataset[2]
                /\ dataset[1] = dataset[2]
                /\ action[1] = action[2]
                /\ rng[1] = rng[2]
    /\ \A r \in Runs :
          /\ seedCalls[r] <= 1
          /\ pc[r] # "seed" => seedCalls[r] = 1
          /\ draws[r] > 0 => seedCalls[r] = 1

C3_Witness ==
    /\ cfg[1] = cfg[2]
    /\ pc[1] = "done" /\ pc[2] = "done"
    /\ iter[1] = MaxIters
    /\ draws[1] = 2 * MaxInit + MaxIters
    /\ dataset[1] = dataset[2]
    /\ Size(dataset[1]) = MaxInit + MaxIters

\* what a run of main ends in: with no numerical failure on its way, the
\* statement after the plots, the loop having returned after exactly num_iters
\* iterations the dataset it holds and the surrogate's hyperparameters;
\* with one, the abort
Terminated(r) ==
    IF cfg[r].fault.step = "none"
    THEN /\ pc[r] = "done"
         /\ iter[r] = cfg[r].num_bo_iters
         /\ result[r] = Some([dataset |-> dataset[r], params |-> ParamsOf(model[r][1])])
    ELSE pc[r] = "aborted" /\ result[r] = None

\* C4: the loop always terminates: every run reaches the terminal state, which,
\* unless a numerical failure aborted it, is reached after exactly num_iters
\* iterations and returns the final dataset with the surrogate's
\* hyperparameters.
C4_Terminates == <>(\A r \in Runs : Terminated(r))

C4_Witness ==
    \E r \in Runs :
        /\ pc[r] = "done"
        /\ cfg[r].num_bo_iters = MaxIters
        /\ iter[r] = MaxIters
        /\ cfg[r].is_optimizing_gp
        /\ result[r][1].params.ls # Ls

\* C5: a dataset has as many query points as observations, and the loop's
\* dataset is append-only: what it holds before a step is a prefix, pair by
\* pair, of what it holds after.
C5_AppendOnly ==
    /\ [](\A r \in Runs :
            /\ Len(dataset[r].query_points) = Len(dataset[r].observations)
            /\ Len(init_dataset[r].query_points) = Len(init_dataset[r].observations))
    /\ [][\A r \in Runs :
            /\ IsPrefix(dataset[r].query_points, dataset'[r].query_points)
            /\ IsPrefix(dataset[r].observations, dataset'[r].observations)]_vars

C5_Witness ==
    \E r \in Runs :
        /\ pc[r] = "done"
        /\ Size(init_dataset[r]) = MaxInit
        /\ Size(dataset[r]) = MaxInit + MaxIters
        /\ IsPrefix(init_dataset[r].observations, dataset[r].observations)

\* C6: MMD is symmetric in its two distributions.
C6_Symmetric == mout # None => mout[1].pq = mout[1].qp

C6_Witness ==
    /\ mout # None
    /\ mp = ref_dist_func(0)
    /\ mq = true_dist_func(0)
    /\ mout[1].pq > 0
    /\ mout[1].pp = 0

\* C7: within an iteration the steps run in the order acquire, observe,
\* append, refit; an acquisition starts only from the loop's entry or from a
\* completed refit; the iteration index advances only with a refit; and every
\* acquisition reads a surrogate fitted to the whole dataset.
C7_Sequential ==
    /\ [][\A r \in Runs :
            /\ pc[r] = "acquire" /\ pc'[r] # pc[r] => pc'[r] \in {"observe", "aborted"}
            /\ pc[r] = "observe" /\ pc'[r] # pc[r] => pc'[r] = "append"
            /\ pc[r] = "append" /\ pc'[r] # pc[r] => pc'[r] = "refit"
            /\ pc[r] = "refit" /\ (pc'[r] # pc[r] \/ iter'[r] # iter[r]) =>
                  \/ pc'[r] = "aborted"
                  \/ /\ pc'[r] \in {"acquire", "return"}
                     /\ iter'[r] = iter[r] + 1
                     /\ model'[r][1].data = dataset[r]
            /\ pc'[r] = "acquire" /\ iter'[r] = iter[r] => pc[r] \in {"acquire", "call_loop"}
            /\ iter'[r] # iter[r] => pc[r] = "refit"]_vars
    /\ [](\A r \in Runs :
            pc[r] = "acquire" => model[r] # None /\ model[r][1].data = dataset[r])

C7_Witness ==
    \E r \in Runs :
        /\ pc[r] = "acquire"
        /\ iter[r] = 1
        /\ model[r][1].data = dataset[r]
        /\ Size(dataset[r]) = Size(init_dataset[r]) + 1

\* C8: the acquisition step leaves the surrogate, the dataset, the
\* distributions, the margin and the random source as they were; once the loop
\* runs, only the refit step changes the surrogate and only the append step
\* changes the dataset.
C8_Frame ==
    [][\A r \in Runs :
          /\ pc[r] = "acquire" =>
                /\ model'[r] = model[r]
                /\ dataset'[r] = dataset[r]
                /\ margin'[r] = margin[r]
                /\ mmdCalls'[r] = mmdCalls[r]
                /\ rng'[r] = rng[r]
                /\ init_dataset'[r] = init_dataset[r]
                /\ <<mp, mq>>' = <<mp, mq>>
          /\ pc[r] \in LoopPcs /\ model'[r] # model[r] => pc[r] = "refit"
          /\ pc[r] \in LoopPcs /\ dataset'[r] # dataset[r] => pc[r] = "append"
          /\ pc[r] \in LoopPcs => margin'[r] = margin[r]]_vars

C8_Witness ==
    \E r \in Runs :
        /\ pc[r] = "observe"
        /\ iter[r] = 1
        /\ action[r] # None
        /\ model[r][1].data = dataset[r]

\* C9: a numerical failure in the MMD computation, in scoring or in a refit
\* aborts the run at the failing statement: the statement is not retried, the
\* aborted run changes nothing afterwards (no later iteration), and no final
\* dataset is returned.
C9_FailureAborts ==
    /\ [][\A r \in Runs :
            /\ FaultDue(r) /\ <<pc[r], iter[r], dataset[r], model[r], margin[r]>>'
                                # <<pc[r], iter[r], dataset[r], model[r], margin[r]>>
                  => pc'[r] = "aborted"
            /\ pc[r] = "aborted" =>
                  <<pc[r], iter[r], dataset[r], model[r], margin[r], result[r], rng[r], action[r]>>'
                    = <<pc[r], iter[r], dataset[r], model[r], margin[r], result[r], rng[r], action[r]>>]_vars
    /\ [](\A r \in Runs : pc[r] = "aborted" => result[r] = None)

C9_Witness ==
    \E r \in Runs :
        /\ pc[r] = "aborted"
        /\ cfg[r].fault = [step |-> "refit", at |-> 1]
        /\ iter[r] = 1
        /\ Size(dataset[r]) = Size(init_dataset[r]) + 2
        /\ result[r] = None

\* C10: the initial dataset has num_init_points entries; the j-th query point
\* is the search-grid point at the j-th index that the generator seeded with 0
\* draws in [0, len(search_points)); so it is the same in two runs that differ
\* in the configured seed, which reaches only the objective function.
C10_InitialDataset ==
    /\ \A r \in Runs :
          pc[r] \notin BeforeModel =>
              LET k == cfg[r].num_init_points
                  idx == RandInt(SeedState(0), Len(search_points), k)
              IN /\ Len(init_dataset[r].query_points) = k
                 /\ Len(init_dataset[r].observations) = k
                 /\ \A j \in 1..k :
                       /\ idx[j] \in 0..(Len(search_points) - 1)
                       /\ init_dataset[r].query_points[j] \in Range(search_points)
                       /\ init_dataset[r].query_points[j] = search_points[idx[j] + 1]
                 /\ obj[r][1].seed = cfg[r].seed
    /\ pc[1] \notin BeforeModel /\ pc[2] \notin BeforeModel
          => init_dataset[1].query_points = init_dataset[2].query_points

C10_Witness ==
    /\ pc[1] \notin BeforeModel
    /\ pc[2] \notin BeforeModel
    /\ cfg[1].seed # cfg[2].seed
    /\ cfg[1].num_init_points = MaxInit
    /\ init_dataset[1].query_points = init_dataset[2].query_points
    /\ init_dataset[1].observations # init_dataset[2].observations

====
